---------------------------- MODULE Spec2Model ----------------------------
(***************************************************************************)
(* GMeetSummarizer: the alignment core of src/processor.py.                *)
(*                                                                         *)
(* Time is counted in ticks of 1/30 second, so that frame_idx / fps is an  *)
(* exact integer for every frame rate of FpsValues and the 2.5 s voice    *)
(* offset is 75 ticks.  Texts (OCR reads, speaker labels, word texts) are  *)
(* sequences of one-character strings.  Python's None is <<>> where a      *)
(* label is expected and -1 where a time is expected.                      *)
(***************************************************************************)
EXTENDS Integers, Sequences, FiniteSets, TLC

VARIABLES
    pc,                  \* position of the run in the pipeline
    fps2,                \* frame rate of the video, in frames per 2 seconds
    total_frames,        \* cv2.CAP_PROP_FRAME_COUNT
    frame_idx,           \* extract_speaker_labels: frame_idx
    results,             \* extract_speaker_labels: results (raw timeline)
    last_valid_speaker,  \* extract_speaker_labels: last_valid_speaker
    accepted,            \* per sampled frame: the text that passed is_valid_name, or None
    has_queue,           \* whether a message_queue was supplied
    message_queue,       \* the events put on message_queue, in order
    printed,             \* the types of the messages printed by _send_msg, in order
    speaker_timeline,    \* the cleaned timeline returned by extract_speaker_labels
    segments,            \* extract_transcribed_words: result["segments"]
    words,               \* extract_transcribed_words: words
    switch_points,       \* extract_speech_intervals: switch_points
    intervals,           \* extract_speech_intervals: the returned list
    interval_to_speaker, \* assign_speakers_to_intervals: interval_to_speaker
    word_idx,            \* transcribe_with_speakers: number of words the loop has taken
    transcript_lines,    \* transcribe_with_speakers: transcript_lines
    current_speaker,     \* transcribe_with_speakers: current_speaker
    current_text,        \* transcribe_with_speakers: current_text
    start_time,          \* transcribe_with_speakers: start_time
    summarize,           \* settings["summarize_transcript"] as read at line 255, FALSE before
    transcript_file,     \* the file at transcript_path
    summary_file,        \* the file at summary_path
    raised,              \* the exception caught by process_video_file, "" for none
    temp_file,           \* downloader: the file at temp_file_path
    done,                \* downloader: done of the download loop
    chunks,              \* downloader: number of next_chunk calls that returned
    processing_calls,    \* downloader: number of calls of processing_function
    download_raised,     \* downloader: the exception caught at lines 150-159, "" for none
    task_pc,             \* UI: position of the background thread
    task_script,         \* UI: the messages the thread's branch puts when nothing raises
    task_pos,            \* UI: how many of them it has put
    sent,                \* UI: the messages the current thread has put, in order
    tasks,               \* UI: number of threads started
    is_running,          \* UI: st.session_state.is_running
    is_success,          \* UI: st.session_state.is_success
    output_messages,     \* UI: st.session_state.output_messages
    messages_received,   \* UI: messages_received of the running script
    progress,            \* UI: st.session_state.progress
    progress_bar_label   \* UI: st.session_state.progress_bar_label

samplerVars == << fps2, total_frames, frame_idx, results, last_valid_speaker,
                 accepted >>
segmenterVars == << segments, words, switch_points, intervals, interval_to_speaker >>

assemblerVars == << word_idx, transcript_lines, current_speaker, current_text,
                   start_time >>
outputVars == << summarize, transcript_file, summary_file, raised >>
messageVars == << has_queue, message_queue, printed >>

downloaderVars == << temp_file, done, chunks, processing_calls, download_raised >>
uiVars == << task_pc, task_script, task_pos, sent, tasks, is_running, is_success,
             output_messages, messages_received, progress, progress_bar_label >>

vars == << pc, samplerVars, messageVars, speaker_timeline, segmenterVars,
           assemblerVars, outputVars, downloaderVars, uiVars >>

-----------------------------------------------------------------------------
(* Bounds of the model *)

MaxFrames == 6
MaxSeconds == 2          \* word, segment and observation times are 0..MaxSeconds s
MaxSegments == 2
MaxObservations == 3
MaxWords == 3
MaxLineObservations == 2 \* length of the timelines the assembler is run on

(* Program constants, in ticks *)

TicksPerSecond == 30
FRAME_INTERVAL == 1
VOICE_TIMESTAMP_OFFSET == 75
silence_threshold == 60

None == << >>

\* a path at which no file exists
NoFile == [exists |-> FALSE, lines |-> << >>]

Max(a, b) == IF a >= b THEN a ELSE b
Min(a, b) == IF a <= b THEN a ELSE b
Last(s) == s[Len(s)]

-----------------------------------------------------------------------------
(* Characters and the name-shape rule of is_valid_name *)

UpperChars == {"A", "B", "C", "D", "L", "O"}
LowerChars == {"a", "b", "i", "l", "o", "y", "z"}
JoinChars == {"'", "-"}
SpaceChars == {" "}

\* s split at every character of seps (a separator is one character wide,
\* so two separators in a row give an empty part)
RECURSIVE SplitOn(_, _)
SplitOn(s, seps) ==
    IF s = << >> THEN << << >> >>
    ELSE LET rest == SplitOn(Tail(s), seps)
         IN  IF Head(s) \in seps
             THEN << << >> >> \o rest
             ELSE << << Head(s) >> \o Head(rest) >> \o Tail(rest)

\* [A-Z][a-z]* when minLower = 0, [A-Z][a-z]+ when minLower = 1
CapitalizedPart(p, minLower) ==
    /\ Len(p) >= 1 + minLower
    /\ p[1] \in UpperChars
    /\ \A i \in 2..Len(p) : p[i] \in LowerChars

\* [A-Z][a-z]*(?:['-][A-Z][a-z]+)*
NameToken(t) ==
    LET parts == SplitOn(t, JoinChars)
    IN  /\ CapitalizedPart(parts[1], 0)
        /\ \A i \in 2..Len(parts) : CapitalizedPart(parts[i], 1)

\* is_valid_name without the demand for a second word
IsValidNameOneToken(name) ==
    LET tokens == SplitOn(name, SpaceChars)
    IN  \A i \in 1..Len(tokens) : NameToken(tokens[i])

is_valid_name(name) ==
    LET tokens == SplitOn(name, SpaceChars)
    IN  /\ Len(tokens) >= 2
        /\ \A i \in 1..Len(tokens) : NameToken(tokens[i])

\* text.replace("0", "O")
ReplaceZero(text) == [i \in 1..Len(text) |-> IF text[i] = "0" THEN "O" ELSE text[i]]

-----------------------------------------------------------------------------
(* Visual speaker sampler: extract_speaker_labels *)

FpsValues == {2, 3, 4}          \* 1.0, 1.5 and 2.0 frames per second

\* what try_ocr can return for one crop box; << >> is None or ""
OcrReads ==
    { << >>,
      << "A", "l", " ", "B", "o" >>,
      << "C", "y", " ", "D", "i" >>,
      << "0", "z", " ", "L", "i", "-", "B", "o" >>,
      << "a", "l", " ", "b", "o" >>,
      << "A", "L", " ", "B", "O" >>,
      << "A", "l" >> }

frame_skip == (fps2 * FRAME_INTERVAL) \div 2

\* Timestamp without the floor at 0
TimestampUnclamped(idx) ==
    (2 * TicksPerSecond * idx) \div fps2 - VOICE_TIMESTAMP_OFFSET

\* frame_idx / fps, less the voice offset, floored at 0
Timestamp(idx) ==
    Max(0, (2 * TicksPerSecond * idx) \div fps2 - VOICE_TIMESTAMP_OFFSET)

\* Progress without the cap at 1.0
ProgressUncapped(idx) == (idx * 100) \div total_frames

\* int(min(1.0, frame_idx / total_frames) * 100)
Progress(idx) == (Min(idx, total_frames) * 100) \div total_frames

Message(type, content) == [type |-> type, content |-> content]

\* if message_queue: message_queue.put((type, content))
Put(q, type, content) ==
    IF has_queue THEN Append(q, Message(type, content)) ELSE q

\* _send_msg of transcribe_with_speakers on out = << queue, printed >>: the
\* message goes to the queue when there is one and is printed otherwise
TranscribeSend(out, type) ==
    IF has_queue THEN << Append(out[1], Message(type, 0)), out[2] >>
    ELSE << out[1], Append(out[2], type) >>

\* _send_msg of process_video_file: the message goes to the queue when there
\* is one and is printed in every case
ProcessSend(out, type) ==
    << Put(out[1], type, 0), Append(out[2], type) >>

\* what process_video_file and transcribe_with_speakers send before the
\* sampling starts (lines 276, 277 and 212)
SentBeforeLabels ==
    TranscribeSend(ProcessSend(ProcessSend(<< << >>, << >> >>, "info"), "text"), "info")

-----------------------------------------------------------------------------
(* Timeline denoiser: filter_noisy_speakers *)

\* IsNoise with the last record no longer exempt: it is compared with its
\* predecessor alone
IsNoiseLastUnguarded(timeline, i) ==
    /\ i # 1
    /\ timeline[i][2] # timeline[i - 1][2]
    /\ (i = Len(timeline) \/ timeline[i][2] # timeline[i + 1][2])

\* IsNoise with the exemption of the first record off by one
IsNoiseOffByOne(timeline, i) ==
    /\ ~ (i <= 2 \/ i = Len(timeline))
    /\ timeline[i][2] # timeline[i - 1][2]
    /\ timeline[i][2] # timeline[i + 1][2]

\* the record at position i is dropped by the loop body
IsNoise(timeline, i) ==
    /\ ~ (i = 1 \/ i = Len(timeline))
    /\ timeline[i][2] # timeline[i - 1][2]
    /\ timeline[i][2] # timeline[i + 1][2]

RECURSIVE FilterFrom(_, _)
FilterFrom(timeline, i) ==
    IF i > Len(timeline) THEN << >>
    ELSE (IF IsNoise(timeline, i) THEN << >> ELSE << timeline[i] >>)
         \o FilterFrom(timeline, i + 1)

\* the pass with the predecessor read from the output built so far
RECURSIVE FilterAgainstOutputFrom(_, _, _)
FilterAgainstOutputFrom(timeline, i, out) ==
    IF i > Len(timeline) THEN out
    ELSE IF /\ ~ (i = 1 \/ i = Len(timeline))
            /\ timeline[i][2] # Last(out)[2]
            /\ timeline[i][2] # timeline[i + 1][2]
         THEN FilterAgainstOutputFrom(timeline, i + 1, out)
         ELSE FilterAgainstOutputFrom(timeline, i + 1, Append(out, timeline[i]))

FilterAgainstOutput(timeline) == FilterAgainstOutputFrom(timeline, 1, << >>)

filter_noisy_speakers(timeline) == FilterFrom(timeline, 1)

-----------------------------------------------------------------------------
(* The sampling run *)

\* no download is under way
DownloaderIdle ==
    /\ temp_file = "absent"
    /\ done = FALSE
    /\ chunks = 0
    /\ processing_calls = 0
    /\ download_raised = ""

\* lines 19-38 of streamlit_app.py: the session state of a fresh session
SessionFresh ==
    /\ task_pc = "none"
    /\ task_script = << >>
    /\ task_pos = 0
    /\ sent = << >>
    /\ tasks = 0
    /\ is_running = FALSE
    /\ is_success = FALSE
    /\ output_messages = << >>
    /\ messages_received = 0
    /\ progress = 0
    /\ progress_bar_label = ""

InitSampler ==
    /\ pc = "sampling"
    /\ fps2 \in FpsValues
    /\ total_frames \in 1..MaxFrames
    /\ frame_idx = 0
    /\ results = << >>
    /\ last_valid_speaker = None
    /\ accepted = << >>
    /\ has_queue \in BOOLEAN
    /\ message_queue = Put(SentBeforeLabels[1], "progress_init", 0)
    /\ printed = SentBeforeLabels[2]
    /\ speaker_timeline = << >>
    /\ segments = << >>
    /\ words = << >>
    /\ switch_points = << >>
    /\ intervals = << >>
    /\ interval_to_speaker = << >>
    /\ word_idx = 0
    /\ transcript_lines = << >>
    /\ current_speaker = None
    /\ current_text = << >>
    /\ start_time = -1
    /\ summarize = FALSE
    /\ transcript_file = NoFile
    /\ summary_file = NoFile
    /\ raised = ""
    /\ DownloaderIdle
    /\ SessionFresh

\* one iteration of the while loop whose cap.read() succeeds
SampleFrame ==
    /\ pc = "sampling"
    /\ frame_idx < total_frames
    /\ \E primary \in OcrReads, secondary \in OcrReads :
         LET timestamp == Timestamp(frame_idx)
             read == IF primary = << >> THEN secondary ELSE primary
             text == ReplaceZero(read)
         IN  IF read # << >> /\ is_valid_name(text)
             THEN /\ results' = Append(results, << timestamp, text >>)
                  /\ last_valid_speaker' = text
                  /\ accepted' = Append(accepted, text)
             ELSE IF last_valid_speaker # None
             THEN /\ results' = Append(results, << timestamp, last_valid_speaker >>)
                  /\ accepted' = Append(accepted, None)
                  /\ UNCHANGED last_valid_speaker
             ELSE /\ accepted' = Append(accepted, None)
                  /\ UNCHANGED << results, last_valid_speaker >>
    /\ frame_idx' = frame_idx + frame_skip
    /\ message_queue' = Put(message_queue, "progress_update",
                            Progress(frame_idx + frame_skip))
    /\ UNCHANGED << downloaderVars, uiVars >>
    /\ UNCHANGED << pc, fps2, total_frames, has_queue, printed, speaker_timeline,
                    segmenterVars, assemblerVars, outputVars >>

\* cap.read() fails: the loop breaks, the timeline is denoised and returned
\* to transcribe_with_speakers, which reports the stage done (line 214)
SampleDone ==
    /\ pc = "sampling"
    /\ frame_idx >= total_frames
    /\ LET out == TranscribeSend(
                      << Put(message_queue, "progress_complete", 0), printed >>,
                      "success")
       IN  /\ message_queue' = out[1]
           /\ printed' = out[2]
    /\ speaker_timeline' = filter_noisy_speakers(results)
    /\ pc' = "transcribe_audio"
    /\ UNCHANGED << downloaderVars, uiVars >>
    /\ UNCHANGED << samplerVars, has_queue, segmenterVars, assemblerVars,
                    outputVars >>

NextSampler == SampleFrame \/ SampleDone

SpecSampler == InitSampler /\ [][NextSampler]_vars

-----------------------------------------------------------------------------
(* Properties of the sampler and the denoiser *)

RECURSIVE IsSubsequence(_, _)
IsSubsequence(a, b) ==
    IF a = << >> THEN TRUE
    ELSE IF b = << >> THEN FALSE
    ELSE IF Head(a) = Head(b) THEN IsSubsequence(Tail(a), Tail(b))
    ELSE IsSubsequence(a, Tail(b))

\* an interior record whose label differs from both neighbours' labels
HasFlicker(timeline) ==
    \E i \in 2..(Len(timeline) - 1) :
        /\ timeline[i][2] # timeline[i - 1][2]
        /\ timeline[i][2] # timeline[i + 1][2]

\* C3: the cleaned timeline is a subsequence of the raw timeline (same order,
\* no longer, no new or altered record), and when the raw timeline is not
\* empty its first and last records are the raw first and last records.
C3_SubsequenceKeepsEnds ==
    pc = "transcribe_audio" =>
        /\ IsSubsequence(speaker_timeline, results)
        /\ Len(speaker_timeline) <= Len(results)
        /\ results # << >> =>
              /\ speaker_timeline # << >>
              /\ Head(speaker_timeline) = Head(results)
              /\ Last(speaker_timeline) = Last(results)

\* a run whose filter dropped an interior record and whose last record is
\* itself a lone label
C3_Witness ==
    /\ pc = "transcribe_audio"
    /\ Len(results) >= 4
    /\ Len(speaker_timeline) < Len(results)
    /\ Last(results)[2] # results[Len(results) - 1][2]

\* C4: after one pass no interior record of the cleaned timeline differs in
\* label from both its neighbours, and a second pass changes nothing, for
\* timelines of every length.
C4_NoFlickerLeftIdempotent ==
    pc = "transcribe_audio" =>
        /\ ~ HasFlicker(speaker_timeline)
        /\ filter_noisy_speakers(speaker_timeline) = speaker_timeline

\* a raw timeline of length >= 4 with a flicker, whose removal leaves two
\* different labels side by side in the cleaned timeline
C4_Witness ==
    /\ pc = "transcribe_audio"
    /\ Len(results) >= 4
    /\ HasFlicker(results)
    /\ Len(speaker_timeline) >= 3
    /\ \E i \in 2..(Len(speaker_timeline) - 1) :
          speaker_timeline[i][2] # speaker_timeline[i - 1][2]

\* the frame index at which the k-th record of results was sampled: the loop
\* emits one record per sampled frame once a name has been accepted
FrameOfRecord(k) == frame_idx - (Len(results) - k + 1) * frame_skip

\* C10: every emitted record has timestamp max(0, frame_index/frame_rate - 2.5 s),
\* so it is >= 0; timestamps never decrease along the raw sequence, and two
\* records share a timestamp only when both were clamped to 0.
C10_TimestampsClampedMonotone ==
    /\ \A k \in 1..Len(results) :
          /\ results[k][1] >= 0
          /\ 2 * fps2 * results[k][1] =
                Max(0, 4 * TicksPerSecond * FrameOfRecord(k) - 5 * TicksPerSecond * fps2)
    /\ \A k \in 1..(Len(results) - 1) :
          /\ results[k][1] <= results[k + 1][1]
          /\ results[k][1] = results[k + 1][1] => results[k][1] = 0

\* a raw timeline holding a record clamped to 0 whose frame lies before the
\* offset, followed by records with positive timestamps
C10_Witness ==
    /\ Len(results) >= 3
    /\ results[1][1] = 0
    /\ FrameOfRecord(1) > 0
    /\ results[Len(results) - 1][1] > 0

-----------------------------------------------------------------------------
(* Inputs of the later stages: what the speech engine and the sampler hand over *)

ToSet(seq) == {seq[i] : i \in 1..Len(seq)}

SeqsUpTo(S, n) == UNION {[1..k -> S] : k \in 0..n}

GridTimes == {TicksPerSecond * k : k \in 0..MaxSeconds}

\* the names the sampler can emit: the OCR reads that pass validation
SpeakerNames == {ReplaceZero(r) : r \in {x \in OcrReads : is_valid_name(ReplaceZero(x))}}

WordText == << " ", "a" >>

\* a start and an end with end >= start
TimeSpans == {p \in GridTimes \X GridTimes : p[1] <= p[2]}

TimedWords == {[word |-> WordText, start |-> p[1], end |-> p[2]] : p \in TimeSpans}

\* extend(segment.get("words", [])) over the segments, in order
RECURSIVE FlattenWords(_)
FlattenWords(segs) ==
    IF segs = << >> THEN << >>
    ELSE Head(segs).words \o FlattenWords(Tail(segs))

\* segments ordered by start and not overlapping, words ordered by start
WellOrdered(segs) ==
    /\ \A i \in 1..(Len(segs) - 1) : segs[i].end <= segs[i + 1].start
    /\ LET ws == FlattenWords(segs)
       IN  \A i \in 1..(Len(ws) - 1) : ws[i].start <= ws[i + 1].start

\* words lasting at most a second
ShortWords == {w \in TimedWords : w.end - w.start <= TicksPerSecond}

\* segments that carry at most one word, the word's times free of the
\* segment's
TimedSegments ==
    {[start |-> p[1], end |-> p[2], words |-> ws] :
        p \in TimeSpans, ws \in {<< >>} \cup {<< w >> : w \in ShortWords}}

\* the well-ordered sequences of at most n of the given segments
RECURSIVE WellOrderedSeqs(_, _)
WellOrderedSeqs(Segs, n) ==
    IF n = 0 THEN {<< >>}
    ELSE LET shorter == WellOrderedSeqs(Segs, n - 1)
             longest == {r \in shorter : Len(r) = n - 1}
         IN  shorter \cup {x \in {Append(r, seg) : r \in longest, seg \in Segs} :
                               WellOrdered(x)}

\* transcription results whose words' times are free of their segments'
WhisperTimedResults == WellOrderedSeqs(TimedSegments, MaxSegments)

\* transcription results whose segments each span exactly their one word
WhisperAlignedResults ==
    LET Segs == {[start |-> w.start, end |-> w.end, words |-> << w >>] :
                    w \in TimedWords}
    IN  {r \in SeqsUpTo(Segs, MaxSegments) : WellOrdered(r)}

\* cleaned timelines: timestamps >= 0 and non-decreasing, labels valid names,
\* no interior record differing from both neighbours
CleanTimelines ==
    {t \in SeqsUpTo(GridTimes \X SpeakerNames, MaxObservations) :
        /\ \A i \in 1..(Len(t) - 1) : t[i][1] <= t[i + 1][1]
        /\ filter_noisy_speakers(t) = t}

-----------------------------------------------------------------------------
(* Speech interval segmenter: extract_speech_intervals *)

\* the silence scan over the words; prev_end_time is -1 for None
RECURSIVE SilenceScan(_, _)
SilenceScan(ws, prev_end_time) ==
    IF ws = << >> THEN << prev_end_time >>
    ELSE LET word_start == Head(ws).start
             word_end == Head(ws).end
             here == IF prev_end_time = -1 THEN << word_start >>
                     ELSE IF word_start - prev_end_time >= silence_threshold
                     THEN << word_start >>
                     ELSE << >>
         IN  here \o SilenceScan(Tail(ws), word_end)

RECURSIVE segment_switch_points(_)
segment_switch_points(segs) ==
    IF segs = << >> THEN << >>
    ELSE << Head(segs).start, Head(segs).end >> \o segment_switch_points(Tail(segs))

RECURSIVE SortSet(_)
SortSet(S) ==
    IF S = {} THEN << >>
    ELSE LET m == CHOOSE x \in S : \A y \in S : x <= y
         IN  << m >> \o SortSet(S \ {m})

RECURSIVE InsertSorted(_, _)
InsertSorted(x, sorted) ==
    IF sorted = << >> THEN << x >>
    ELSE IF x <= Head(sorted) THEN << x >> \o sorted
    ELSE << Head(sorted) >> \o InsertSorted(x, Tail(sorted))

RECURSIVE SortList(_)
SortList(seq) ==
    IF seq = << >> THEN << >> ELSE InsertSorted(Head(seq), SortList(Tail(seq)))

\* sorted(points) without set(): duplicates survive
SortedWithDuplicates(points) == SortList(points)

\* sorted(set(points))
SortedDistinct(points) == SortSet(ToSet(points))

\* the points the intervals are built from (line 156)
all_switch_points(segs, ws) == SortedDistinct(segment_switch_points(segs))

extract_speech_intervals(segs, ws) ==
    LET all == all_switch_points(segs, ws)
    IN  [i \in 1..(Len(all) - 1) |-> << all[i], all[i + 1] >>]

-----------------------------------------------------------------------------
(* Interval speaker resolver: assign_speakers_to_intervals *)

\* first element of speakers with the highest count (Counter.most_common(1))
MostCommon(speakers) ==
    LET Count(x) == Cardinality({i \in 1..Len(speakers) : speakers[i] = x})
        best == CHOOSE i \in 1..Len(speakers) :
                   /\ \A j \in 1..Len(speakers) : Count(speakers[j]) <= Count(speakers[i])
                   /\ \A j \in 1..(i - 1) : Count(speakers[j]) < Count(speakers[i])
    IN  speakers[best]

get_majority_speaker(speakers) ==
    IF speakers = << >> THEN None
    ELSE IF Len(speakers) = 1 THEN speakers[1]
    ELSE MostCommon(speakers)

\* interval[0] <= s[0] < interval[1]
InRangeLabelsHalfOpen(interval, timeline) ==
    {timeline[i][2] : i \in {j \in 1..Len(timeline) :
        interval[1] <= timeline[j][1] /\ timeline[j][1] < interval[2]}}

\* interval[0] < s[0] <= interval[1]
InRangeLabelsOpenStart(interval, timeline) ==
    {timeline[i][2] : i \in {j \in 1..Len(timeline) :
        interval[1] < timeline[j][1] /\ timeline[j][1] <= interval[2]}}

\* set([s[1] for s in speaker_timeline if interval[0] <= s[0] <= interval[1]])
InRangeLabels(interval, timeline) ==
    {timeline[i][2] : i \in {j \in 1..Len(timeline) :
        interval[1] <= timeline[j][1] /\ timeline[j][1] <= interval[2]}}

\* list(set(...)): the elements of S in any order (the iteration order of a
\* set of strings depends on the process's hash seed)
ListsOfSet(S) ==
    {l \in [1..Cardinality(S) -> S] : \A x \in S : \E i \in 1..Cardinality(S) : l[i] = x}

\* what interval_to_speaker[interval] can be
IntervalSpeakers(interval, timeline) ==
    {get_majority_speaker(speakers) : speakers \in ListsOfSet(InRangeLabels(interval, timeline))}

-----------------------------------------------------------------------------
(* The segmentation run *)

\* what has been sent when extract_speaker_labels has returned (lines 276,
\* 277, 212, 64, 110 and 214); the progress_update events of the sampling
\* loop, one per sampled frame, are those of SpecSampler and are left out
SentAfterLabels ==
    TranscribeSend(
        << Put(Put(SentBeforeLabels[1], "progress_init", 0), "progress_complete", 0),
           SentBeforeLabels[2] >>,
        "success")

\* extract_speaker_labels has returned speaker_timeline, one of timelines;
\* its locals are gone
InitAfterLabels(timelines, queues) ==
    /\ pc = "transcribe_audio"
    /\ speaker_timeline \in timelines
    /\ fps2 = 2
    /\ total_frames = 1
    /\ frame_idx = 1
    /\ results = speaker_timeline
    /\ last_valid_speaker = None
    /\ accepted = << >>
    /\ has_queue \in queues
    /\ message_queue = SentAfterLabels[1]
    /\ printed = SentAfterLabels[2]
    /\ segments = << >>
    /\ words = << >>
    /\ switch_points = << >>
    /\ intervals = << >>
    /\ interval_to_speaker = << >>
    /\ word_idx = 0
    /\ transcript_lines = << >>
    /\ current_speaker = None
    /\ current_text = << >>
    /\ start_time = -1
    /\ summarize = FALSE
    /\ transcript_file = NoFile
    /\ summary_file = NoFile
    /\ raised = ""
    /\ DownloaderIdle
    /\ SessionFresh

\* lines 216-218: the transcription, announced and reported
ExtractTranscribedWords(transcriptions) ==
    /\ pc = "transcribe_audio"
    /\ \E result \in transcriptions :
          /\ segments' = result
          /\ words' = FlattenWords(result)
    /\ LET out == TranscribeSend(TranscribeSend(<< message_queue, printed >>, "info"),
                                 "success")
       IN  /\ message_queue' = out[1]
           /\ printed' = out[2]
    /\ pc' = "intervals"
    /\ UNCHANGED << downloaderVars, uiVars >>
    /\ UNCHANGED << samplerVars, has_queue, speaker_timeline, switch_points,
                    intervals, interval_to_speaker, assemblerVars, outputVars >>

ExtractSpeechIntervals ==
    /\ pc = "intervals"
    /\ switch_points' = SilenceScan(words, -1)
    /\ intervals' = extract_speech_intervals(segments, words)
    /\ pc' = "assemble"
    /\ UNCHANGED << downloaderVars, uiVars >>
    /\ UNCHANGED << samplerVars, messageVars, speaker_timeline, segments, words,
                    interval_to_speaker, assemblerVars, outputVars >>

AssignSpeakersToIntervals ==
    /\ pc = "assemble"
    /\ interval_to_speaker' \in
          {f \in [ToSet(intervals) -> SpeakerNames \cup {None}] :
              \A interval \in ToSet(intervals) :
                  f[interval] \in IntervalSpeakers(interval, speaker_timeline)}
    /\ pc' = "assigned"
    /\ UNCHANGED << downloaderVars, uiVars >>
    /\ UNCHANGED << samplerVars, messageVars, speaker_timeline, segments, words,
                    switch_points, intervals, assemblerVars, outputVars >>

InitSegment == InitAfterLabels({<< >>}, {FALSE})

NextSegment ==
    \/ ExtractTranscribedWords(WhisperTimedResults)
    \/ ExtractSpeechIntervals

SpecSegment == InitSegment /\ [][NextSegment]_vars

InitAssign == InitAfterLabels(CleanTimelines, {FALSE})

NextAssign ==
    \/ ExtractTranscribedWords(WhisperAlignedResults)
    \/ ExtractSpeechIntervals
    \/ AssignSpeakersToIntervals

SpecAssign == InitAssign /\ [][NextAssign]_vars

-----------------------------------------------------------------------------
(* Transcript assembler: transcribe_with_speakers and process_video_file *)

\* get_current_speaker's candidate test with < in place of <=
CandidatesStrict(current_timestamp, timeline) ==
    SelectSeq(timeline, LAMBDA s : s[1] < current_timestamp)

\* [s for s in speaker_timeline if s[0] <= current_timestamp]
Candidates(current_timestamp, timeline) ==
    SelectSeq(timeline, LAMBDA s : s[1] <= current_timestamp)

\* speaker_timeline[0] does not exist: IndexError
GetCurrentSpeakerRaises(current_timestamp, ivs, timeline) ==
    Candidates(current_timestamp, timeline) = << >> /\ timeline = << >>

\* get_current_speaker returning the first candidate in place of the last
GetCurrentSpeakerFirstCandidate(current_timestamp, ivs, timeline) ==
    LET candidates == Candidates(current_timestamp, timeline)
    IN  IF candidates # << >> THEN candidates[1][2] ELSE timeline[1][2]

get_current_speaker(current_timestamp, ivs, timeline) ==
    LET candidates == Candidates(current_timestamp, timeline)
    IN  IF candidates # << >> THEN Last(candidates)[2] ELSE timeline[1][2]

RECURSIVE StripLeft(_)
StripLeft(text) ==
    IF text # << >> /\ Head(text) \in SpaceChars THEN StripLeft(Tail(text)) ELSE text

RECURSIVE StripRight(_)
StripRight(text) ==
    IF text # << >> /\ Last(text) \in SpaceChars
    THEN StripRight(SubSeq(text, 1, Len(text) - 1))
    ELSE text

\* str.strip()
Strip(text) == StripRight(StripLeft(text))

Digit(d) == CASE d = 0 -> "0" [] d = 1 -> "1" [] d = 2 -> "2" [] d = 3 -> "3"
              [] d = 4 -> "4" [] d = 5 -> "5" [] d = 6 -> "6" [] d = 7 -> "7"
              [] d = 8 -> "8" [] d = 9 -> "9"

RECURSIVE Decimal(_)
Decimal(n) == IF n < 10 THEN << Digit(n) >> ELSE Decimal(n \div 10) \o << Digit(n % 10) >>

TwoDigits(n) == << Digit(n \div 10), Digit(n % 10) >>

\* str(timedelta(seconds=int(seconds))), for less than a day: H:MM:SS
seconds_to_hms(ticks) ==
    LET seconds == ticks \div TicksPerSecond
    IN  Decimal(seconds \div 3600) \o << ":" >> \o TwoDigits((seconds \div 60) % 60)
        \o << ":" >> \o TwoDigits(seconds % 60)

\* the next word joined to the line with a space in between
ExtendTextSpaced(text, word_text) == text \o << " " >> \o word_text

\* current_text += word_text
ExtendText(text, word_text) == text \o word_text

\* TranscriptLine stamped with the start of the recording
TranscriptLineStampedZero(start, speaker, text) ==
    << seconds_to_hms(0), speaker, Strip(text) >>

\* (timestamp, current_speaker, current_text.strip())
TranscriptLine(start, speaker, text) == << seconds_to_hms(start), speaker, Strip(text) >>

WordTexts == { << " ", "a" >>, << "b", " " >> }

\* transcription results with one segment spanning all its words, the words'
\* texts carrying the engine's own spacing
WhisperTextResults ==
    LET Words == {[word |-> t[1], start |-> t[2], end |-> t[2]] :
                     t \in WordTexts \X GridTimes}
        Lists == {ws \in SeqsUpTo(Words, MaxWords) :
                     \A i \in 1..(Len(ws) - 1) : ws[i].start <= ws[i + 1].start}
    IN  {IF ws = << >> THEN << >>
         ELSE << [start |-> ws[1].start, end |-> Last(ws).end, words |-> ws] >> :
            ws \in Lists}

\* timelines over two speakers; the assembler only compares labels, so the
\* first record's label is fixed
LineTimelines ==
    {t \in CleanTimelines :
        /\ Len(t) <= MaxLineObservations
        /\ \A i \in 1..Len(t) : t[i][2] \in {<< "A", "l", " ", "B", "o" >>,
                                             << "C", "y", " ", "D", "i" >>}
        /\ t # << >> => t[1][2] = << "A", "l", " ", "B", "o" >>}

\* one iteration of the loop over the words (lines 227-240); an exception of
\* get_current_speaker leaves transcribe_with_speakers and is reported by
\* process_video_file (lines 286-288)
TranscribeWord ==
    /\ pc = "assemble"
    /\ word_idx < Len(words)
    /\ LET word == words[word_idx + 1]
           word_start == word.start
           word_text == word.word
       IN  IF GetCurrentSpeakerRaises(word_start, intervals, speaker_timeline)
           THEN LET out == ProcessSend(<< message_queue, printed >>, "error")
                IN  /\ message_queue' = out[1]
                    /\ printed' = out[2]
                    /\ pc' = "done"
                    /\ raised' = "IndexError"
                    /\ UNCHANGED assemblerVars
           ELSE LET speaker == get_current_speaker(word_start, intervals, speaker_timeline)
                IN  /\ IF speaker # current_speaker
                       THEN /\ transcript_lines' =
                                  IF current_speaker # None
                                  THEN Append(transcript_lines,
                                              TranscriptLine(start_time, current_speaker,
                                                             current_text))
                                  ELSE transcript_lines
                            /\ current_speaker' = speaker
                            /\ current_text' = word_text
                            /\ start_time' = word_start
                       ELSE /\ current_text' = ExtendText(current_text, word_text)
                            /\ UNCHANGED << transcript_lines, current_speaker,
                                            start_time >>
                    /\ word_idx' = word_idx + 1
                    /\ UNCHANGED << pc, message_queue, printed, raised >>
    /\ UNCHANGED << downloaderVars, uiVars >>
    /\ UNCHANGED << samplerVars, has_queue, speaker_timeline, segmenterVars,
                    summarize, transcript_file, summary_file >>

\* the loop is over: the last line is appended (lines 242-244)
AssembleDone ==
    /\ pc = "assemble"
    /\ word_idx = Len(words)
    /\ transcript_lines' =
          IF current_speaker # None
          THEN Append(transcript_lines,
                      TranscriptLine(start_time, current_speaker, current_text))
          ELSE transcript_lines
    /\ pc' = "write"
    /\ UNCHANGED << downloaderVars, uiVars >>
    /\ UNCHANGED << samplerVars, messageVars, speaker_timeline, segmenterVars,
                    word_idx, current_speaker, current_text, start_time, outputVars >>

\* lines 246-258: the transcript file is opened and written line by line.
\* written = -1: open() raises; written < Len(transcript_lines): the write of
\* line written + 1 raises; otherwise every line is written and line 255
\* reads the setting.  A failure is reported by process_video_file.
WriteTranscript ==
    /\ pc = "write"
    /\ \E written \in -1..Len(transcript_lines) :
         IF written = Len(transcript_lines)
         THEN \E setting \in BOOLEAN :
              LET saved == TranscribeSend(<< message_queue, printed >>, "success")
                  out == IF setting THEN TranscribeSend(saved, "info")
                         ELSE ProcessSend(saved, "info")
              IN  /\ transcript_file' = [exists |-> TRUE, lines |-> transcript_lines]
                  /\ summarize' = setting
                  /\ message_queue' = out[1]
                  /\ printed' = out[2]
                  /\ pc' = IF setting THEN "summarize" ELSE "done"
                  /\ UNCHANGED raised
         ELSE LET out == ProcessSend(<< message_queue, printed >>, "error")
              IN  /\ transcript_file' =
                        IF written = -1 THEN transcript_file
                        ELSE [exists |-> TRUE,
                              lines |-> SubSeq(transcript_lines, 1, written)]
                  /\ message_queue' = out[1]
                  /\ printed' = out[2]
                  /\ raised' = IF written = -1 THEN "transcript open"
                               ELSE "transcript write"
                  /\ pc' = "done"
                  /\ UNCHANGED summarize
    /\ UNCHANGED << downloaderVars, uiVars >>
    /\ UNCHANGED << samplerVars, has_queue, speaker_timeline, segmenterVars,
                    assemblerVars, summary_file >>

\* the summary path opened for writing before the request is made
SummaryFileCreatedFirst(outcome, file) ==
    IF outcome = "ok" THEN [exists |-> TRUE, lines |-> << "summary" >>]
    ELSE [exists |-> TRUE, lines |-> << >>]

\* the file at summary_path after the summarization step: a failing request
\* or open() leaves the path alone, a failing f.write leaves the file opened
\* for writing, and success leaves the summary
SummaryFileAfter(outcome, file) ==
    CASE outcome = "ok" -> [exists |-> TRUE, lines |-> << "summary" >>]
      [] outcome = "write" -> [exists |-> TRUE, lines |-> << >>]
      [] OTHER -> file

\* lines 260-267 and 282: the summary is requested and written.  outcome
\* "request": summarize_transcript raises; "open": open() raises; "write":
\* f.write raises; "ok": the summary is saved.
SummarizeTranscript ==
    /\ pc = "summarize"
    /\ \E outcome \in {"request", "open", "write", "ok"} :
         LET out == IF outcome = "ok"
                    THEN ProcessSend(TranscribeSend(<< message_queue, printed >>,
                                                    "success"), "info")
                    ELSE ProcessSend(<< message_queue, printed >>, "error")
         IN  /\ summary_file' = SummaryFileAfter(outcome, summary_file)
             /\ raised' = CASE outcome = "ok" -> ""
                             [] outcome = "request" -> "summarize_transcript"
                             [] outcome = "open" -> "summary open"
                             [] outcome = "write" -> "summary write"
             /\ message_queue' = out[1]
             /\ printed' = out[2]
    /\ pc' = "done"
    /\ UNCHANGED << downloaderVars, uiVars >>
    /\ UNCHANGED << samplerVars, has_queue, speaker_timeline, segmenterVars,
                    assemblerVars, summarize, transcript_file >>

InitTranscribe == InitAfterLabels(LineTimelines, BOOLEAN)

NextTranscribe ==
    \/ ExtractTranscribedWords(WhisperTextResults)
    \/ ExtractSpeechIntervals
    \/ TranscribeWord
    \/ AssembleDone
    \/ WriteTranscript
    \/ SummarizeTranscript

SpecTranscribe == InitTranscribe /\ [][NextTranscribe]_vars

-----------------------------------------------------------------------------
(* Properties of the assembler *)

RECURSIVE ConcatTexts(_)
ConcatTexts(texts) ==
    IF texts = << >> THEN << >> ELSE Head(texts) \o ConcatTexts(Tail(texts))

LineTexts == [k \in 1..Len(transcript_lines) |-> transcript_lines[k][3]]

WordTextsOf(ws) == [i \in 1..Len(ws) |-> ws[i].word]

\* text without the whitespace before its first and after its last
\* character that is not whitespace
Trimmed(text) ==
    LET solid == {i \in 1..Len(text) : text[i] # " "}
    IN  IF solid = {} THEN << >>
        ELSE SubSeq(text, CHOOSE i \in solid : \A j \in solid : i <= j,
                          CHOOSE i \in solid : \A j \in solid : j <= i)

\* the words cut into consecutive runs after the positions of cuts
RunStart(cuts, k) ==
    IF k = 1 THEN 1
    ELSE 1 + CHOOSE c \in cuts : Cardinality({d \in cuts : d <= c}) = k - 1

RunEnd(cuts, k, n) ==
    IF k = Cardinality(cuts) + 1 THEN n
    ELSE CHOOSE c \in cuts : Cardinality({d \in cuts : d <= c}) = k

C2_EmptyTimelineNotFatal ==
    pc = "done" /\ speaker_timeline = << >> /\ words # << >> =>
        /\ \A i \in 1..Len(printed) : printed[i] # "error"
        /\ transcript_file.exists
        /\ \A k \in 1..Len(transcript_file.lines) : transcript_file.lines[k][2] = None
        /\ LET texts == [k \in 1..Len(transcript_file.lines) |->
                            transcript_file.lines[k][3]]
           IN  SelectSeq(ConcatTexts(texts), LAMBDA c : c # " ")
                  = SelectSeq(ConcatTexts(WordTextsOf(words)), LAMBDA c : c # " ")

-----------------------------------------------------------------------------
(* Properties of the segmenter *)

CoveredBySomeInterval(t) ==
    \E k \in 1..Len(intervals) : intervals[k][1] <= t /\ t <= intervals[k][2]

\* C5: every word's start time lies inside the closed span of at least one
\* returned interval.
C5_EveryWordStartCovered ==
    pc = "assemble" =>
        \A i \in 1..Len(words) : CoveredBySomeInterval(words[i].start)

\* the start and end of every segment
SegmentBoundaries == {segments[i].start : i \in 1..Len(segments)}
                     \cup {segments[i].end : i \in 1..Len(segments)}

\* C6: the returned intervals are sorted by start, each has start < end, each
\* ends where the next starts, and n >= 1 distinct switch points give n - 1
\* intervals reaching from the smallest to the largest switch point (no
\* switch point, no interval).
C6_IntervalsPartition ==
    pc = "assemble" =>
        LET n == Cardinality(SegmentBoundaries)
        IN  /\ \A k \in 1..Len(intervals) : intervals[k][1] < intervals[k][2]
            /\ \A k \in 1..(Len(intervals) - 1) :
                  /\ intervals[k][2] = intervals[k + 1][1]
                  /\ intervals[k][1] < intervals[k + 1][1]
            /\ n >= 1 => Len(intervals) = n - 1
            /\ n = 0 => Len(intervals) = 0
            /\ Len(intervals) >= 1 =>
                  /\ \A t \in SegmentBoundaries : intervals[1][1] <= t
                  /\ intervals[1][1] \in SegmentBoundaries
                  /\ \A t \in SegmentBoundaries : t <= Last(intervals)[2]
                  /\ Last(intervals)[2] \in SegmentBoundaries

\* two segments that share a boundary and still give several intervals
C6_Witness ==
    /\ pc = "assemble"
    /\ Len(segments) = 2
    /\ segments[1].end = segments[2].start
    /\ Len(intervals) = 2

\* C7: with no words, extract_speech_intervals returns no interval (and no
\* interval with a None endpoint), whatever the segments.
C7_NoWordsNoIntervals ==
    pc = "assemble" /\ words = << >> =>
        /\ intervals = << >>
        /\ \A k \in 1..Len(intervals) : intervals[k][1] # -1 /\ intervals[k][2] # -1

-----------------------------------------------------------------------------
(* Properties of the resolver *)

\* the positions of the observations inside the closed interval
ObservationsInside(interval) ==
    {j \in 1..Len(speaker_timeline) :
        interval[1] <= speaker_timeline[j][1] /\ speaker_timeline[j][1] <= interval[2]}

LabelsInside(interval) == {speaker_timeline[j][2] : j \in ObservationsInside(interval)}

\* C8: one entry per interval; no observation inside gives none, one distinct
\* label inside gives that label, and a speaker that is not none is always
\* the label of an observation inside the interval.
C8_OneSpeakerPerInterval ==
    pc = "assigned" =>
        /\ DOMAIN interval_to_speaker = ToSet(intervals)
        /\ Cardinality(DOMAIN interval_to_speaker) = Len(intervals)
        /\ \A k \in 1..Len(intervals) :
              LET interval == intervals[k]
                  speaker == interval_to_speaker[interval]
              IN  /\ LabelsInside(interval) = {} => speaker = None
                  /\ Cardinality(LabelsInside(interval)) = 1 =>
                        speaker \in LabelsInside(interval)
                  /\ speaker # None => speaker \in LabelsInside(interval)

\* an assignment with an interval holding no observation and an interval
\* whose observations all sit on its end boundary and carry one label
C8_Witness ==
    /\ pc = "assigned"
    /\ \E a, b \in ToSet(intervals) :
          /\ LabelsInside(a) = {} /\ interval_to_speaker[a] = None
          /\ Cardinality(LabelsInside(b)) = 1
          /\ \A j \in ObservationsInside(b) : speaker_timeline[j][1] = b[2]
          /\ interval_to_speaker[b] # None

\* C9: an interval holding two or more distinct labels always resolves to the
\* same speaker, the label of the earliest observation inside it, whatever
\* the iteration order of the label set.
C9_FirstEncounteredSpeaker ==
    pc = "assigned" =>
        \A interval \in ToSet(intervals) :
            Cardinality(LabelsInside(interval)) >= 2 =>
                LET first == CHOOSE j \in ObservationsInside(interval) :
                                \A i \in ObservationsInside(interval) : j <= i
                IN  interval_to_speaker[interval] = speaker_timeline[first][2]

-----------------------------------------------------------------------------
(* The end-to-end scenario: lines 220-244 run on the documented example and *)
(* on its neighbours (words left out, other timelines over the same times)  *)

Alice == << "A", "l", "i", "c", "e" >>
Bob == << "B", "o", "b" >>

\* words (a, 0.0, 0.5), (b, 0.6, 1.0) and (c, 5.0, 5.5), in ticks
ScenarioWords ==
    << [word |-> << "a" >>, start |-> 0, end |-> 15],
       [word |-> << "b" >>, start |-> 18, end |-> 30],
       [word |-> << "c" >>, start |-> 150, end |-> 165] >>

\* segments (0.0, 1.0) and (5.0, 5.5) carrying the words numbered in kept
ScenarioSegments(kept) ==
    << [start |-> 0, end |-> 30,
        words |-> SelectSeq(SubSeq(ScenarioWords, 1, 2),
                            LAMBDA w : \E i \in kept : ScenarioWords[i] = w)],
       [start |-> 150, end |-> 165,
        words |-> SelectSeq(SubSeq(ScenarioWords, 3, 3),
                            LAMBDA w : \E i \in kept : ScenarioWords[i] = w)] >>

ScenarioResults == {ScenarioSegments(kept) : kept \in SUBSET (1..3)}

\* cleaned timeline [(0.0, Alice), (5.0, Bob)]
ScenarioTimeline == << << 0, Alice >>, << 150, Bob >> >>

\* the cleaned timelines over the scenario's observation times and labels
ScenarioTimelines ==
    {t \in SeqsUpTo({0, 150} \X {Alice, Bob}, MaxLineObservations) :
        /\ \A i \in 1..(Len(t) - 1) : t[i][1] <= t[i + 1][1]
        /\ filter_noisy_speakers(t) = t}

InitScenario == InitAfterLabels(ScenarioTimelines, BOOLEAN)

NextScenario ==
    \/ ExtractTranscribedWords(ScenarioResults)
    \/ ExtractSpeechIntervals
    \/ TranscribeWord
    \/ AssembleDone

SpecScenario == InitScenario /\ [][NextScenario]_vars

\* the run is the documented one: all three words, both segments, the
\* timeline of Alice and Bob
IsScenario ==
    /\ segments = ScenarioSegments(1..3)
    /\ speaker_timeline = ScenarioTimeline

ScenarioIntervals == << << 0, 30 >>, << 30, 150 >>, << 150, 165 >> >>

\* C11 as claimed: the scenario gives the intervals (0.0,1.0), (1.0,5.0),
\* (5.0,5.5) and exactly the two lines ("00:00:00", Alice, "ab") and
\* ("00:00:05", Bob, "c").
C11_ScenarioPaddedHours ==
    pc = "write" /\ IsScenario =>
        /\ intervals = ScenarioIntervals
        /\ transcript_lines =
              << << << "0", "0", ":", "0", "0", ":", "0", "0" >>, Alice, << "a", "b" >> >>,
                 << << "0", "0", ":", "0", "0", ":", "0", "5" >>, Bob, << "c" >> >> >>

\* C11 as amended: the same intervals and the same two lines, their
\* timestamps in the form H:MM:SS: ("0:00:00", Alice, "ab") and
\* ("0:00:05", Bob, "c").
C11_ScenarioLines ==
    pc = "write" /\ IsScenario =>
        /\ intervals = ScenarioIntervals
        /\ transcript_lines =
              << << << "0", ":", "0", "0", ":", "0", "0" >>, Alice, << "a", "b" >> >>,
                 << << "0", ":", "0", "0", ":", "0", "5" >>, Bob, << "c" >> >> >>

\* the documented run, assembled: three words taken, two lines made
C11_Witness ==
    /\ pc = "write"
    /\ IsScenario
    /\ word_idx = 3
    /\ Len(transcript_lines) = 2

-----------------------------------------------------------------------------
(* Properties of the artifacts *)

\* the transcript artifact holding every line
CompleteTranscript == [exists |-> TRUE, lines |-> transcript_lines]

\* C12: the transcript file is completely written when the summarization
\* endpoint is called; when summarize_transcript fails, the failure is
\* reported as an error message (the last message of the run, on the queue
\* when there is one), the transcript file stays complete and no summary file
\* is created.
C12_SummaryFailureKeepsTranscript ==
    /\ pc = "summarize" => transcript_file = CompleteTranscript /\ raised = ""
    /\ pc = "done" /\ raised = "summarize_transcript" =>
          /\ Last(printed) = "error"
          /\ has_queue => Last(message_queue).type = "error"
          /\ transcript_file = CompleteTranscript
          /\ summary_file = NoFile

\* a failed summarization after a transcript of two lines was written
C12_Witness ==
    /\ pc = "done"
    /\ raised = "summarize_transcript"
    /\ Len(transcript_file.lines) = 2
    /\ has_queue

\* C13: after a run whose write of the transcript or of the summary failed
\* part-way, each target path holds the complete new artifact or what it held
\* before the run (nothing).
C13_NoPartialArtifact ==
    pc = "done" /\ raised \in {"transcript write", "summary write"} =>
        /\ transcript_file \in {NoFile, CompleteTranscript}
        /\ summary_file \in {NoFile, [exists |-> TRUE, lines |-> << "summary" >>]}

-----------------------------------------------------------------------------
(* Properties of the progress events and of the carry-forward *)

ProgressTypes == {"progress_init", "progress_update", "progress_complete"}

ProgressEvents(q) == SelectSeq(q, LAMBDA m : m.type \in ProgressTypes)

\* the raw timeline of a video whose sampled frames accepted the texts of acc
\* (None: nothing accepted at that frame), from frame number k on; last is
\* the latest accepted text
RECURSIVE CarriedFrom(_, _, _)
CarriedFrom(acc, k, last) ==
    IF k > Len(acc) THEN << >>
    ELSE LET label == IF acc[k] # None THEN acc[k] ELSE last
         IN  (IF label # None
              THEN << << Timestamp((k - 1) * frame_skip), label >> >>
              ELSE << >>)
             \o CarriedFrom(acc, k + 1, label)

\* C14: with an observer queue, a run of extract_speaker_labels that has
\* returned has put exactly one init, then one update per sampled frame, each
\* percent an integer of 0..100 and never below the one before, then exactly
\* one complete; without a queue it has put nothing; and the returned
\* timeline is the one fixed by the frames alone, queue or no queue.
C14_ProgressEventsOrdered ==
    pc = "transcribe_audio" =>
        LET ev == ProgressEvents(message_queue)
            n == Len(ev)
        IN  /\ has_queue =>
                  /\ n = Len(accepted) + 2
                  /\ ev[1].type = "progress_init"
                  /\ ev[n].type = "progress_complete"
                  /\ \A k \in 2..(n - 1) :
                        /\ ev[k].type = "progress_update"
                        /\ ev[k].content \in 0..100
                  /\ \A k \in 2..(n - 2) : ev[k].content <= ev[k + 1].content
            /\ ~ has_queue => message_queue = << >>
            /\ speaker_timeline = filter_noisy_speakers(CarriedFrom(accepted, 1, None))

\* an observed run over three frames or more whose last step overshoots the
\* frame count, so that the last percent is held at 100, and whose first
\* update is below 100
C14_Witness ==
    /\ pc = "transcribe_audio"
    /\ has_queue
    /\ Len(accepted) >= 3
    /\ frame_idx > total_frames
    /\ speaker_timeline # << >>
    /\ LET ev == ProgressEvents(message_queue)
       IN  ev[2].content < 100 /\ ev[Len(ev) - 1].content = 100

-----------------------------------------------------------------------------
(* Properties of the switch points *)

\* the silence-gap points of the word scan (None left out) pooled with the
\* segment boundaries
PooledSwitchPoints ==
    ({switch_points[i] : i \in 1..Len(switch_points)} \ {-1}) \cup SegmentBoundaries

\* C15: the intervals are built from the switch points of both sources, the
\* silence-gap points of the words and the starts and ends of the segments,
\* pooled, made distinct and sorted; a silence-gap point that is no segment
\* boundary splits an interval.
C15_SwitchPointsPooled ==
    pc = "assemble" =>
        LET all == SortSet(PooledSwitchPoints)
        IN  intervals = [i \in 1..(Len(all) - 1) |-> << all[i], all[i + 1] >>]

-----------------------------------------------------------------------------
(* Properties of the attribution *)

\* the positions of the observations not later than t
NotLaterThan(t) == {j \in 1..Len(speaker_timeline) : speaker_timeline[j][1] <= t}

\* the label of the latest-listed observation not later than t, the first
\* observation's label when there is none
AttributedSpeaker(t) ==
    IF NotLaterThan(t) = {} THEN speaker_timeline[1][2]
    ELSE speaker_timeline[CHOOSE j \in NotLaterThan(t) :
                             \A i \in NotLaterThan(t) : i <= j][2]

\* C16: with a non-empty cleaned timeline, the speaker of the word just taken
\* is the label of the last observation whose timestamp is <= the word's
\* start (the latest-listed one among equal timestamps), the first
\* observation's label when all are later; and get_current_speaker gives that
\* label whatever intervals it is handed.
C16_LastObservationNotLater ==
    pc = "assemble" /\ word_idx >= 1 /\ speaker_timeline # << >> =>
        LET word_start == words[word_idx].start
        IN  /\ current_speaker = AttributedSpeaker(word_start)
            /\ \A ivs \in {<< >>, intervals, ScenarioIntervals} :
                  get_current_speaker(word_start, ivs, speaker_timeline)
                     = AttributedSpeaker(word_start)

\* a word attributed to the second of two observations that share a
\* timestamp and differ in label, after a word that came before both
C16_Witness ==
    /\ pc = "assemble"
    /\ word_idx >= 2
    /\ Len(speaker_timeline) = 2
    /\ speaker_timeline[1][1] = speaker_timeline[2][1]
    /\ speaker_timeline[1][2] # speaker_timeline[2][2]
    /\ words[1].start < speaker_timeline[1][1]
    /\ speaker_timeline[2][1] <= words[word_idx].start
    /\ current_speaker = speaker_timeline[2][2]

-----------------------------------------------------------------------------
(* Properties of the lines *)

\* the positions after which the attributed speaker changes
SpeakerChanges ==
    {i \in 1..(Len(words) - 1) :
        AttributedSpeaker(words[i].start) # AttributedSpeaker(words[i + 1].start)}

\* C17: the lines are the maximal runs of consecutive words with the same
\* attributed speaker: one line per run, in order, holding the run's speaker,
\* the formatted start of the run's first word and the run's words; adjacent
\* lines differ in speaker; the lines' start times do not decrease when the
\* words' do not.
C17_LinesAreMaximalRuns ==
    pc = "write" /\ speaker_timeline # << >> =>
        LET n == Len(words)
            first(k) == words[RunStart(SpeakerChanges, k)]
        IN  IF n = 0 THEN transcript_lines = << >>
            ELSE /\ Len(transcript_lines) = Cardinality(SpeakerChanges) + 1
                 /\ \A k \in 1..Len(transcript_lines) :
                       /\ transcript_lines[k][1] = seconds_to_hms(first(k).start)
                       /\ transcript_lines[k][2] = AttributedSpeaker(first(k).start)
                       /\ transcript_lines[k][3] =
                             Trimmed(ConcatTexts(WordTextsOf(
                                SubSeq(words, RunStart(SpeakerChanges, k),
                                       RunEnd(SpeakerChanges, k, n)))))
                 /\ \A k \in 1..(Len(transcript_lines) - 1) :
                       /\ transcript_lines[k][2] # transcript_lines[k + 1][2]
                       /\ first(k).start \div TicksPerSecond
                             <= first(k + 1).start \div TicksPerSecond

\* three words in two lines, the second line a run of two words that starts
\* a second or more into the recording
C17_Witness ==
    /\ pc = "write"
    /\ Len(words) = 3
    /\ SpeakerChanges = {1}
    /\ Len(transcript_lines) = 2
    /\ words[2].start >= TicksPerSecond
    /\ transcript_lines[1][1] # transcript_lines[2][1]

-----------------------------------------------------------------------------
(* Properties of the denoiser's single pass *)

\* the raw record at position i is interior and its label differs from the
\* labels of both its raw neighbours
LoneInRaw(i) ==
    /\ 1 < i /\ i < Len(results)
    /\ results[i][2] # results[i - 1][2]
    /\ results[i][2] # results[i + 1][2]

\* the records of seq at the positions of S, in order, from position i on
RECURSIVE RecordsAt(_, _, _)
RecordsAt(seq, S, i) ==
    IF i > Len(seq) THEN << >>
    ELSE (IF i \in S THEN << seq[i] >> ELSE << >>) \o RecordsAt(seq, S, i + 1)

\* C18: the cleaned timeline is the raw timeline without exactly the interior
\* records whose label differs from the labels of both raw neighbours; a
\* record with an equal raw neighbour is kept.
C18_RemovesExactlyRawLoners ==
    pc = "transcribe_audio" =>
        /\ speaker_timeline =
              RecordsAt(results, {i \in 1..Len(results) : ~ LoneInRaw(i)}, 1)
        /\ Len(speaker_timeline) =
              Len(results) - Cardinality({i \in 1..Len(results) : LoneInRaw(i)})
        /\ \A i \in 1..(Len(results) - 1) :
              results[i][2] = results[i + 1][2] => ~ LoneInRaw(i) /\ ~ LoneInRaw(i + 1)

\* two lone records side by side, both removed, the second of which has the
\* label of the record kept before them
C18_Witness ==
    /\ pc = "transcribe_audio"
    /\ \E i \in 2..(Len(results) - 2) :
          /\ LoneInRaw(i) /\ LoneInRaw(i + 1)
          /\ results[i + 1][2] = results[i - 1][2]
    /\ Len(speaker_timeline) <= Len(results) - 2

-----------------------------------------------------------------------------
(* Properties of the carry-forward of the sampling loop *)

\* the texts of OcrReads that have the shape of a name once 0 is read as O
NameShapedTexts ==
    { << "A", "l", " ", "B", "o" >>,
      << "C", "y", " ", "D", "i" >>,
      << "O", "z", " ", "L", "i", "-", "B", "o" >> }

\* the sampled frames at which a text was accepted
AcceptedFrames == {k \in 1..Len(accepted) : accepted[k] # None}

\* the latest frame not after k at which a text was accepted
LastAcceptedUpTo(k) ==
    CHOOSE a \in AcceptedFrames : a <= k /\ \A b \in AcceptedFrames : b <= k => b <= a

\* C19: the raw timeline holds no record for the frames sampled before the
\* first accepted one and exactly one record for every frame sampled from it
\* on; the record of a frame without an accepted text carries the label of
\* the latest accepted frame before it; every label has the shape of a name.
C19_CarryForward ==
    IF AcceptedFrames = {} THEN results = << >> /\ last_valid_speaker = None
    ELSE LET first == CHOOSE a \in AcceptedFrames : \A b \in AcceptedFrames : a <= b
         IN  /\ Len(results) = Len(accepted) - first + 1
             /\ \A j \in 1..Len(results) :
                   /\ results[j][2] = accepted[LastAcceptedUpTo(first + j - 1)]
                   /\ results[j][2] \in NameShapedTexts
             /\ last_valid_speaker = accepted[LastAcceptedUpTo(Len(accepted))]

\* frames dropped before the first accepted text, then an accepted text, a
\* frame that inherits it, and another accepted text
C19_Witness ==
    /\ Len(accepted) >= 4
    /\ accepted[1] = None
    /\ accepted[2] # None
    /\ accepted[3] = None
    /\ accepted[4] \notin {None, accepted[2]}
    /\ Len(results) = Len(accepted) - 1
    /\ results[2][2] = accepted[2]

-----------------------------------------------------------------------------
(* Properties of the interval bounds of the resolver *)

\* the labels of the observations from the start of a to the end of b
LabelsAcross(a, b) ==
    {speaker_timeline[j][2] : j \in {i \in 1..Len(speaker_timeline) :
        a[1] <= speaker_timeline[i][1] /\ speaker_timeline[i][1] <= b[2]}}

\* C20: an interval's speaker is never taken from an observation strictly
\* before its start or strictly after its end, and an observation on the
\* boundary shared by two adjacent intervals counts for both: when it carries
\* the only label found across the two, both intervals resolve to it.
C20_ClosedOnBothEnds ==
    pc = "assigned" =>
        /\ \A k \in 1..Len(intervals) :
              LET interval == intervals[k]
                  speaker == interval_to_speaker[interval]
              IN  speaker # None =>
                      \E j \in 1..Len(speaker_timeline) :
                          /\ speaker_timeline[j][2] = speaker
                          /\ ~ (speaker_timeline[j][1] < interval[1])
                          /\ ~ (speaker_timeline[j][1] > interval[2])
        /\ \A k \in 1..(Len(intervals) - 1) :
              \A j \in 1..Len(speaker_timeline) :
                  /\ speaker_timeline[j][1] = intervals[k][2]
                  /\ speaker_timeline[j][1] = intervals[k + 1][1]
                  /\ LabelsAcross(intervals[k], intervals[k + 1])
                        = {speaker_timeline[j][2]}
                  => /\ interval_to_speaker[intervals[k]] = speaker_timeline[j][2]
                     /\ interval_to_speaker[intervals[k + 1]] = speaker_timeline[j][2]

\* two adjacent intervals whose only observation sits on their shared
\* boundary, both resolved to its label
C20_Witness ==
    /\ pc = "assigned"
    /\ Len(intervals) = 2
    /\ \E j \in 1..Len(speaker_timeline) :
          /\ speaker_timeline[j][1] = intervals[1][2]
          /\ ObservationsInside(intervals[1]) = {j}
          /\ ObservationsInside(intervals[2]) = {j}
          /\ interval_to_speaker[intervals[1]] = speaker_timeline[j][2]
          /\ interval_to_speaker[intervals[2]] = speaker_timeline[j][2]

-----------------------------------------------------------------------------
(* The downloader: download_meet_recording_to_temp_file of downloader.py *)

MaxChunks == 3

\* int(status.progress() * 100) of a chunk
PercentValues == {0, 50, 100}

\* _send_msg of downloader.py: to the queue when there is one, printed always
DownloaderSend(out, type) ==
    << Put(out[1], type, 0), Append(out[2], type) >>

\* the message types processing_function puts before it returns or raises:
\* nothing, a lone message, a whole run of process_video_file, and a run of
\* process_video_file whose sampling loop raised after a progress update (the
\* exception is caught and reported inside process_video_file)
ProcessingScripts ==
    { << >>,
      << "info" >>,
      << "info", "progress_init", "progress_update", "progress_complete", "success" >>,
      << "info", "progress_init", "progress_update", "error" >> }

\* the messages of a script put on out = << queue, printed >>: progress
\* events go to the queue alone, the others are printed as well
RECURSIVE PutScript(_, _)
PutScript(out, script) ==
    IF script = << >> THEN out
    ELSE PutScript(
            IF Head(script) \in ProgressTypes
            THEN << Put(out[1], Head(script), 50), out[2] >>
            ELSE DownloaderSend(out, Head(script)),
            Tail(script))

\* lines 153-154 and 158-159 leaving the progress bar as it is
ErrorHandlerLeavesProgress(q) == q

\* lines 153-154 and 158-159: the progress bar is completed on error
ErrorHandlerCompletesProgress(q) == Put(q, "progress_complete", 0)

InitDownload ==
    /\ pc = "dl_fetch"
    /\ fps2 = 2
    /\ total_frames = 1
    /\ frame_idx = 0
    /\ results = << >>
    /\ last_valid_speaker = None
    /\ accepted = << >>
    /\ has_queue \in BOOLEAN
    /\ message_queue = << >>
    /\ printed = << >>
    /\ speaker_timeline = << >>
    /\ segments = << >>
    /\ words = << >>
    /\ switch_points = << >>
    /\ intervals = << >>
    /\ interval_to_speaker = << >>
    /\ word_idx = 0
    /\ transcript_lines = << >>
    /\ current_speaker = None
    /\ current_text = << >>
    /\ start_time = -1
    /\ summarize = FALSE
    /\ transcript_file = NoFile
    /\ summary_file = NoFile
    /\ raised = ""
    /\ DownloaderIdle
    /\ SessionFresh

\* lines 110-114: the Drive service is built and the media request made
FetchFile ==
    /\ pc = "dl_fetch"
    /\ \E outcome \in {"ok", "HttpError", "Exception"} :
         IF outcome = "ok"
         THEN LET out == DownloaderSend(<< message_queue, printed >>, "info")
              IN  /\ message_queue' = out[1]
                  /\ printed' = out[2]
                  /\ pc' = "dl_create"
                  /\ UNCHANGED download_raised
         ELSE /\ download_raised' = outcome
              /\ pc' = "dl_except"
              /\ UNCHANGED << message_queue, printed >>
    /\ UNCHANGED << temp_file, done, chunks, processing_calls, has_queue >>
    /\ UNCHANGED << uiVars, samplerVars, speaker_timeline, segmenterVars,
                    assemblerVars, outputVars >>

\* lines 119-133: the temporary file is created and the download announced
CreateTempFile ==
    /\ pc = "dl_create"
    /\ \E outcome \in {"ok", "Exception"} :
         IF outcome = "ok"
         THEN LET out == DownloaderSend(<< message_queue, printed >>, "info")
              IN  /\ temp_file' = "exists"
                  /\ message_queue' = Put(out[1], "progress_init", 0)
                  /\ printed' = out[2]
                  /\ pc' = "dl_loop"
                  /\ UNCHANGED download_raised
         ELSE /\ download_raised' = outcome
              /\ pc' = "dl_except"
              /\ UNCHANGED << temp_file, message_queue, printed >>
    /\ UNCHANGED << done, chunks, processing_calls, has_queue >>
    /\ UNCHANGED << uiVars, samplerVars, speaker_timeline, segmenterVars,
                    assemblerVars, outputVars >>

\* lines 135-141: one iteration of the download loop; next_chunk returns a
\* status and done, or raises
NextChunk ==
    /\ pc = "dl_loop"
    /\ done = FALSE
    /\ \/ \E percent \in PercentValues, finished \in BOOLEAN :
             /\ finished \/ chunks + 1 < MaxChunks
             /\ chunks' = chunks + 1
             /\ done' = finished
             /\ message_queue' = Put(message_queue, "progress_update", percent)
             /\ pc' = IF finished THEN "dl_complete" ELSE "dl_loop"
             /\ UNCHANGED download_raised
       \/ \E exception \in {"HttpError", "Exception"} :
             /\ download_raised' = exception
             /\ pc' = "dl_except"
             /\ UNCHANGED << chunks, done, message_queue >>
    /\ UNCHANGED << temp_file, processing_calls, has_queue, printed >>
    /\ UNCHANGED << uiVars, samplerVars, speaker_timeline, segmenterVars,
                    assemblerVars, outputVars >>

\* lines 143-145: the download is reported complete and the file closed
DownloadComplete ==
    /\ pc = "dl_complete"
    /\ LET out == DownloaderSend(<< message_queue, printed >>, "success")
       IN  /\ message_queue' = Put(out[1], "progress_complete", 0)
           /\ printed' = out[2]
    /\ pc' = "dl_process"
    /\ UNCHANGED << downloaderVars, has_queue >>
    /\ UNCHANGED << uiVars, samplerVars, speaker_timeline, segmenterVars,
                    assemblerVars, outputVars >>

\* line 148: processing_function runs on the temporary file, puts its
\* messages and returns or raises
InvokeProcessing ==
    /\ pc = "dl_process"
    /\ processing_calls' = processing_calls + 1
    /\ \E script \in ProcessingScripts, exception \in {"", "HttpError", "Exception"} :
         LET out == PutScript(<< message_queue, printed >>, script)
         IN  /\ message_queue' = out[1]
             /\ printed' = out[2]
             /\ download_raised' = exception
             /\ pc' = IF exception = "" THEN "dl_finally" ELSE "dl_except"
    /\ UNCHANGED << temp_file, done, chunks, has_queue >>
    /\ UNCHANGED << uiVars, samplerVars, speaker_timeline, segmenterVars,
                    assemblerVars, outputVars >>

\* lines 150-159: either except clause reports the error and completes the
\* progress bar
HandleDownloadError ==
    /\ pc = "dl_except"
    /\ LET out == DownloaderSend(<< message_queue, printed >>, "error")
       IN  /\ message_queue' = ErrorHandlerCompletesProgress(out[1])
           /\ printed' = out[2]
    /\ pc' = "dl_finally"
    /\ UNCHANGED << downloaderVars, has_queue >>
    /\ UNCHANGED << uiVars, samplerVars, speaker_timeline, segmenterVars,
                    assemblerVars, outputVars >>

\* lines 160-168: the temporary file, if it was created and is still there,
\* is removed; os.remove succeeds or raises OSError, which is reported
RemoveTempFile ==
    /\ pc = "dl_finally"
    /\ IF temp_file = "exists"
       THEN \E removed \in BOOLEAN :
               LET out == DownloaderSend(<< message_queue, printed >>,
                                         IF removed THEN "info" ELSE "error")
               IN  /\ temp_file' = IF removed THEN "deleted" ELSE temp_file
                   /\ message_queue' = out[1]
                   /\ printed' = out[2]
       ELSE UNCHANGED << temp_file, message_queue, printed >>
    /\ pc' = "dl_returned"
    /\ UNCHANGED << done, chunks, processing_calls, download_raised, has_queue >>
    /\ UNCHANGED << uiVars, samplerVars, speaker_timeline, segmenterVars,
                    assemblerVars, outputVars >>

NextDownload ==
    \/ FetchFile
    \/ CreateTempFile
    \/ NextChunk
    \/ DownloadComplete
    \/ InvokeProcessing
    \/ HandleDownloadError
    \/ RemoveTempFile

SpecDownload == InitDownload /\ [][NextDownload]_vars

\* the function has returned and its temporary file had been created
ReturnedWithTempFile == pc = "dl_returned" /\ temp_file # "absent"

\* some progress_complete comes after every progress_update of the queue
CompleteAfterLastUpdate(q) ==
    LET ev == ProgressEvents(q)
    IN  \A i \in 1..Len(ev) :
           ev[i].type = "progress_update" =>
              \E j \in (i + 1)..Len(ev) : ev[j].type = "progress_complete"

\* the download's own progress events are the first of the queue: the init,
\* one update for each chunk received, then the complete
DownloadProgressClosed(q) ==
    LET ev == ProgressEvents(q)
    IN  /\ Len(ev) >= chunks + 2
        /\ ev[1].type = "progress_init"
        /\ \A i \in 2..(chunks + 1) : ev[i].type = "progress_update"
        /\ ev[chunks + 2].type = "progress_complete"

\* processing_function is invoked at most once, and only after the download
\* reported done
ProcessingOnceAfterDone ==
    /\ processing_calls <= 1
    /\ processing_calls = 1 => done

-----------------------------------------------------------------------------
(* The Streamlit page: the background thread and the polling loop of
   streamlit_app.py *)

MaxTasks == 2
MaxRecordings == 11

\* while messages_received < 10
MessagesPerRerun == 10

\* the messages of the "List Recent Recordings" branch for n recordings
ListMessages(n) ==
    IF n = 0 THEN << Message("info", 0) >>
    ELSE << Message("info", 0) >> \o [idx \in 1..n |-> Message("text", idx - 1)]

\* what the branches of target_function_in_thread put when nothing raises:
\* one error, the listing, and the messages of a processing run and of a
\* download whose processing failed
TaskScripts ==
    { << Message("error", 0) >> }
    \cup { ListMessages(n) : n \in 0..MaxRecordings }
    \cup { << Message("info", 0), Message("progress_init", 1),
              Message("progress_update", 50), Message("progress_complete", 0),
              Message("success", 0) >>,
           << Message("info", 0), Message("progress_init", 1),
              Message("progress_update", 50), Message("progress_complete", 0),
              Message("success", 0), Message("progress_init", 2),
              Message("progress_update", 50), Message("error", 0),
              Message("progress_complete", 0), Message("info", 1) >> }

\* get_nowait taking the newest message
GetNewestFirst(q) == << Last(q), SubSeq(q, 1, Len(q) - 1) >>

\* queue.Queue.get_nowait on a queue that is not empty: the oldest message
\* and the rest
get_nowait(q) == << Head(q), Tail(q) >>

InitUi ==
    /\ pc = "ui_idle"
    /\ fps2 = 2
    /\ total_frames = 1
    /\ frame_idx = 0
    /\ results = << >>
    /\ last_valid_speaker = None
    /\ accepted = << >>
    /\ has_queue = TRUE
    /\ message_queue = << >>
    /\ printed = << >>
    /\ speaker_timeline = << >>
    /\ segments = << >>
    /\ words = << >>
    /\ switch_points = << >>
    /\ intervals = << >>
    /\ interval_to_speaker = << >>
    /\ word_idx = 0
    /\ transcript_lines = << >>
    /\ current_speaker = None
    /\ current_text = << >>
    /\ start_time = -1
    /\ summarize = FALSE
    /\ transcript_file = NoFile
    /\ summary_file = NoFile
    /\ raised = ""
    /\ DownloaderIdle
    /\ SessionFresh

uiRest == << has_queue, printed, samplerVars, speaker_timeline, segmenterVars,
             assemblerVars, outputVars, downloaderVars >>

\* lines 157-227 and 230-234: the enabled button is clicked; the page is
\* marked running, the output cleared, the thread started and the polling
\* loop entered
ClickExecute ==
    /\ pc = "ui_idle"
    /\ ~is_running
    /\ tasks < MaxTasks
    /\ is_running' = TRUE
    /\ output_messages' = << >>
    /\ progress' = 0
    /\ progress_bar_label' = ""
    /\ \E script \in TaskScripts : task_script' = script
    /\ task_pc' = "try"
    /\ task_pos' = 0
    /\ sent' = << >>
    /\ tasks' = tasks + 1
    /\ messages_received' = 0
    /\ pc' = "ui_poll"
    /\ UNCHANGED << is_success, message_queue, uiRest >>

\* lines 174-216: the thread puts the next message of its branch, reaches
\* the end of the try block, or raises
TaskStep ==
    /\ task_pc = "try"
    /\ \/ /\ task_pos < Len(task_script)
          /\ message_queue' = Append(message_queue, task_script[task_pos + 1])
          /\ sent' = Append(sent, task_script[task_pos + 1])
          /\ task_pos' = task_pos + 1
          /\ UNCHANGED task_pc
       \/ /\ task_pos = Len(task_script)
          /\ task_pc' = "finally"
          /\ UNCHANGED << message_queue, sent, task_pos >>
       \/ /\ task_pc' = "except"
          /\ UNCHANGED << message_queue, sent, task_pos >>
    /\ UNCHANGED << pc, task_script, tasks, is_running, is_success, output_messages,
                    messages_received, progress, progress_bar_label, uiRest >>

\* lines 217-218: an exception of the try block is reported
TaskExcept ==
    /\ task_pc = "except"
    /\ message_queue' = Append(message_queue, Message("error", 99))
    /\ sent' = Append(sent, Message("error", 99))
    /\ task_pc' = "finally"
    /\ UNCHANGED << pc, task_script, task_pos, tasks, is_running, is_success,
                    output_messages, messages_received, progress,
                    progress_bar_label, uiRest >>

\* lines 219-220: the end of the task is signalled and the thread exits
TaskFinally ==
    /\ task_pc = "finally"
    /\ message_queue' = Append(message_queue, Message("DONE", 0))
    /\ sent' = Append(sent, Message("DONE", 0))
    /\ task_pc' = "exited"
    /\ UNCHANGED << pc, task_script, task_pos, tasks, is_running, is_success,
                    output_messages, messages_received, progress,
                    progress_bar_label, uiRest >>

\* lines 235-250: one iteration of the message loop on a queue that is not
\* empty
PollMessage ==
    /\ pc = "ui_poll"
    /\ messages_received < MessagesPerRerun
    /\ message_queue # << >>
    /\ LET got == get_nowait(message_queue)
           msg == got[1]
       IN  /\ message_queue' = got[2]
           /\ messages_received' = messages_received + 1
           /\ is_running' = IF msg.type = "DONE" THEN FALSE ELSE is_running
           /\ is_success' = IF msg.type = "DONE" THEN TRUE ELSE is_success
           /\ progress_bar_label' =
                 IF msg.type = "progress_init" THEN msg.content
                 ELSE IF msg.type = "progress_complete" THEN ""
                 ELSE progress_bar_label
           /\ progress' =
                 IF msg.type = "progress_update" THEN msg.content
                 ELSE IF msg.type = "progress_complete" THEN 0
                 ELSE progress
           /\ output_messages' =
                 IF msg.type \in ProgressTypes \cup {"DONE"} THEN output_messages
                 ELSE Append(output_messages, msg)
           /\ pc' = IF msg.type = "DONE" \/ messages_received + 1 = MessagesPerRerun
                    THEN "ui_display" ELSE "ui_poll"
    /\ UNCHANGED << task_pc, task_script, task_pos, sent, tasks, uiRest >>

\* lines 236 and 251-252: get_nowait raises queue.Empty, the loop is left
PollEmpty ==
    /\ pc = "ui_poll"
    /\ message_queue = << >>
    /\ pc' = "ui_display"
    /\ UNCHANGED << message_queue, uiVars, uiRest >>

\* lines 254-275, then the next run of the script: it enters the polling
\* loop again (230-234) while the page is running, otherwise it shows the
\* final output and the balloons (278-297)
Rerun ==
    /\ pc = "ui_display"
    /\ IF is_running
       THEN /\ messages_received' = 0
            /\ pc' = "ui_poll"
            /\ UNCHANGED is_success
       ELSE /\ is_success' = FALSE
            /\ pc' = "ui_idle"
            /\ UNCHANGED messages_received
    /\ UNCHANGED << task_pc, task_script, task_pos, sent, tasks, is_running,
                    output_messages, progress, progress_bar_label,
                    message_queue, uiRest >>

NextUi ==
    \/ ClickExecute
    \/ TaskStep
    \/ TaskExcept
    \/ TaskFinally
    \/ PollMessage
    \/ PollEmpty
    \/ Rerun

\* the script of a connected session keeps running: the polling loop sleeps
\* a tenth of a second and reruns
PollingFairness == WF_vars(PollMessage \/ PollEmpty \/ Rerun)

SpecUi == InitUi /\ [][NextUi]_vars /\ PollingFairness

\* the messages of q the polling loop appends to output_messages
OutputMessagesOf(q) ==
    SelectSeq(q, LAMBDA m : m.type \notin ProgressTypes \cup {"DONE"})

\* the messages of the current thread the polling loop has taken so far
Consumed == SubSeq(sent, 1, Len(sent) - Len(message_queue))

\* the thread puts DONE once, as its last message, whatever way it leaves
DoneOnceAndLast ==
    /\ \A i \in 1..Len(sent) :
          sent[i].type = "DONE" <=> (task_pc = "exited" /\ i = Len(sent))
    /\ task_pc = "exited" => sent # << >>

\* the queue holds the messages put and not yet taken, and output_messages
\* the non-progress messages taken, in the order they were put
OutputInOrder ==
    /\ Len(message_queue) <= Len(sent)
    /\ message_queue = SubSeq(sent, Len(sent) - Len(message_queue) + 1, Len(sent))
    /\ output_messages = OutputMessagesOf(Consumed)

\* is_running turns false only in a step that takes DONE from the queue,
\* and that step leaves the queue empty
StopsOnlyOnDone ==
    is_running /\ ~is_running' =>
        /\ message_queue # << >>
        /\ Head(message_queue).type = "DONE"
        /\ message_queue' = << >>
        /\ output_messages' = OutputMessagesOf(sent)

\* C22: each background thread puts exactly one DONE, after every other
\* message of the task and on every exit path; under any interleaving of the
\* thread and the polling loop is_running becomes false only by consuming
\* DONE, it does so eventually once the thread has finished, every
\* non-progress message is appended to output_messages in the order it was
\* put with none lost, and the queue is empty when is_running turns false.
C22_DoneEndsTask ==
    /\ [](DoneOnceAndLast /\ OutputInOrder)
    /\ [][StopsOnlyOnDone]_vars
    /\ (task_pc = "exited" /\ is_running) ~> ~is_running

\* a listing of more messages than one rerun takes was cut short by an
\* exception, and the page has stopped with all of them shown
C22_Witness ==
    /\ ~is_running
    /\ is_success
    /\ task_pc = "exited"
    /\ task_pos < Len(task_script)
    /\ Len(output_messages) > MessagesPerRerun
    /\ Last(output_messages) = Message("error", 99)
    /\ message_queue = << >>

=============================================================================
